---- MODULE Spec2Model ----
(***************************************************************************)
(* A model of rs-wc: the counting engine (process_chunk, count_bytes,      *)
(* count_reader, count_files), the accumulation of WcCounter records       *)
(* (add_counts, +=) and the output layer's record list (format_results).   *)
(*                                                                         *)
(* Bytes are the integers 0..255, a buffer is a sequence of bytes, an      *)
(* Option<T> is the empty sequence (None) or a one-element sequence        *)
(* (Some).  CHUNK_SIZE is a compile-time constant of count_bytes; the      *)
(* model carries it as the parameter chunk_size so that the chunking can   *)
(* be exercised on short buffers.                                          *)
(***************************************************************************)
EXTENDS Integers, Sequences, FiniteSets, TLC

VARIABLES
    buffer,        \* count_bytes / count_reader: the input bytes
    chunk_size,    \* the chunk size used by par_chunks in the last scan
    modes,         \* the &[CountMode] of the last scan, as a set
    op,            \* "none" | "count_bytes" | "count_reader"
    result,        \* WcResult<WcCounter> of the last scan
    fs,            \* count_files: path -> what opening the path gives
    paths,         \* count_files: the &[P] of paths
    item,          \* count_files: per path, "pending" | "running" | "done" | "skipped"
    item_result,   \* count_files: per path, the WcResult of count_file
    saved_error,   \* count_files: the Mutex<Option<E>> of the Result collect
    full,          \* count_files: the while_some stop flag
    files_result,  \* count_files: Option<WcResult<Vec<WcCounter>>>
    results,       \* format_results: the &[WcCounter]
    cli,           \* format_results: the Cli flags and format
    output,        \* format_results: Option<the entries written>
    a, b, c,       \* test_counter_add_associative: the three inputs
    sum1, sum2     \* test_counter_add_associative: Option<the two accumulators>

vars == <<buffer, chunk_size, modes, op, result, fs, paths, item, item_result,
          saved_error, full, files_result, results, cli, output,
          a, b, c, sum1, sum2>>

countVars == <<buffer, chunk_size, modes, op, result>>
filesVars == <<fs, paths, item, item_result, saved_error, full, files_result>>
formatVars == <<results, cli, output>>
addVars == <<a, b, c, sum1, sum2>>

-----------------------------------------------------------------------------
(* Bounds of the model. *)

\* Longest buffer built from Alphabet.
MaxLen == 3

\* Longest list of paths given to count_files.
MaxPaths == 3

\* Longest list of records given to format_results.
MaxResults == 3

\* Largest value of a field of a generated WcCounter.
MaxField == 1

-----------------------------------------------------------------------------
(* Generic helpers. *)

None == <<>>

Some(x) == <<x>>

Max(x, y) == IF x >= y THEN x ELSE y

Min(x, y) == IF x <= y THEN x ELSE y

RECURSIVE SeqsUpTo(_, _)
SeqsUpTo(S, n) ==
    IF n = 0 THEN {<<>>}
    ELSE LET shorter == SeqsUpTo(S, n - 1)
         IN  shorter \cup {Append(s, x) : s \in {t \in shorter : Len(t) = n - 1}, x \in S}

-----------------------------------------------------------------------------
(* parser.rs: CountMode. *)

CountMode == {"Lines", "Words", "Bytes", "Chars"}

-----------------------------------------------------------------------------
(* counter.rs: WcCounter. *)

\* WcCounter::new() / Default: all counts zero, no filename.
NewCounter ==
    [lines |-> 0, words |-> 0, bytes |-> 0, chars |-> 0,
     max_line_length |-> 0, filename |-> None]

\* A variant of add_counts that takes other's max_line_length instead of
\* the maximum of the two.
add_counts_last_max(self, other) ==
    [self EXCEPT !.lines = @ + other.lines,
                 !.words = @ + other.words,
                 !.bytes = @ + other.bytes,
                 !.chars = @ + other.chars,
                 !.max_line_length = other.max_line_length]

\* self.add_counts(other): sums, the maximum for max_line_length, and
\* self.filename is kept.
add_counts(self, other) ==
    [self EXCEPT !.lines = @ + other.lines,
                 !.words = @ + other.words,
                 !.bytes = @ + other.bytes,
                 !.chars = @ + other.chars,
                 !.max_line_length = Max(@, other.max_line_length)]

\* impl AddAssign<&WcCounter>: self += other.
add_assign(self, other) == add_counts(self, other)

-----------------------------------------------------------------------------
(* counter.rs: process_chunk. *)

\* A variant of is_ascii_whitespace: C's isspace, which also takes the
\* vertical tab (11).
is_c_isspace(byte) == byte \in {9, 10, 11, 12, 13, 32}

\* u8::is_ascii_whitespace: tab, line feed, form feed, carriage return, space.
is_ascii_whitespace(byte) == byte \in {9, 10, 12, 13, 32}

\* A variant of is_line_terminator that also ends a line at a carriage return.
is_line_terminator_or_cr(byte) == byte \in {10, 13}

\* `byte == b'\n'`
is_line_terminator(byte) == byte = 10

\* One iteration of the loop `for &byte in chunk`.
\* st = [partial, in_word, current_line_length].
process_byte(st, byte) ==
    LET len1 == st.current_line_length + 1
        s1 == IF is_line_terminator(byte)
              THEN [st EXCEPT !.partial.lines = @ + 1,
                              !.partial.max_line_length = Max(@, len1),
                              !.current_line_length = 0]
              ELSE [st EXCEPT !.current_line_length = len1]
    IN  IF is_ascii_whitespace(byte)
        THEN [s1 EXCEPT !.partial.words = IF s1.in_word THEN @ + 1 ELSE @,
                        !.in_word = FALSE]
        ELSE [s1 EXCEPT !.in_word = TRUE,
                        !.partial.chars = @ + 1]

RECURSIVE scan_loop(_, _, _)
scan_loop(chunk, i, st) ==
    IF i > Len(chunk) THEN st
    ELSE scan_loop(chunk, i + 1, process_byte(st, chunk[i]))

process_chunk(chunk, initial_in_word, initial_line_length) ==
    scan_loop(chunk, 1,
              [partial |-> NewCounter,
               in_word |-> initial_in_word,
               current_line_length |-> initial_line_length]).partial

-----------------------------------------------------------------------------
(* counter.rs: count_bytes. *)

\* bytes.par_chunks(size): consecutive chunks of `size` bytes, the last one
\* shorter; no chunk at all for an empty slice.
par_chunks(bytes, size) ==
    LET n == (Len(bytes) + size - 1) \div size
    IN  [k \in 1..n |-> SubSeq(bytes, (k - 1) * size + 1, Min(k * size, Len(bytes)))]

\* `for partial in &partial_counts { counter += partial; }`
RECURSIVE fold_partials(_, _, _)
fold_partials(counter, partial_counts, k) ==
    IF k > Len(partial_counts) THEN counter
    ELSE fold_partials(add_assign(counter, partial_counts[k]), partial_counts, k + 1)

\* std::str::from_utf8, as core's run_utf8_validation decides it: the lead
\* byte gives the width, and the second byte's range depends on the lead.
IsCont(x) == x >= 128 /\ x <= 191

RECURSIVE utf8_valid_from(_, _)
utf8_valid_from(bytes, i) ==
    IF i > Len(bytes) THEN TRUE
    ELSE LET first == bytes[i]
             has(k) == i + k <= Len(bytes)
             at(k) == bytes[i + k]
         IN  IF first < 128 THEN utf8_valid_from(bytes, i + 1)
             ELSE IF first >= 194 /\ first <= 223
                  THEN has(1) /\ IsCont(at(1)) /\ utf8_valid_from(bytes, i + 2)
             ELSE IF first >= 224 /\ first <= 239
                  THEN /\ has(1)
                       /\ \/ first = 224 /\ at(1) >= 160 /\ at(1) <= 191
                          \/ first >= 225 /\ first <= 236 /\ IsCont(at(1))
                          \/ first = 237 /\ at(1) >= 128 /\ at(1) <= 159
                          \/ first >= 238 /\ first <= 239 /\ IsCont(at(1))
                       /\ has(2) /\ IsCont(at(2))
                       /\ utf8_valid_from(bytes, i + 3)
             ELSE IF first >= 240 /\ first <= 244
                  THEN /\ has(1)
                       /\ \/ first = 240 /\ at(1) >= 144 /\ at(1) <= 191
                          \/ first >= 241 /\ first <= 243 /\ IsCont(at(1))
                          \/ first = 244 /\ at(1) >= 128 /\ at(1) <= 143
                       /\ has(2) /\ IsCont(at(2))
                       /\ has(3) /\ IsCont(at(3))
                       /\ utf8_valid_from(bytes, i + 4)
             ELSE FALSE

from_utf8_is_ok(bytes) == utf8_valid_from(bytes, 1)

\* s.chars().count(): the bytes of s that are not continuation bytes.
chars_count(bytes) == Cardinality({i \in 1..Len(bytes) : ~IsCont(bytes[i])})

\* A variant of count_chars that counts the non-continuation bytes whether
\* or not the buffer decodes.
count_chars_unchecked(bytes) == chars_count(bytes)

\* match std::str::from_utf8(bytes) { Ok(s) => s.chars().count(),
\*                                    Err(_) => bytes.len() }
count_chars(bytes) ==
    IF from_utf8_is_ok(bytes) THEN chars_count(bytes) ELSE Len(bytes)

Ok(v) == [tag |-> "Ok", value |-> Some(v), error |-> None]

Err(e) == [tag |-> "Err", value |-> None, error |-> Some(e)]

\* A variant of count_bytes that sets the byte count inside the branch that
\* scans the chunks, so that Bytes alone leaves it at zero.
count_bytes_in_scan_branch(bytes, filename, ms, size) ==
    LET c0 == [NewCounter EXCEPT !.filename = filename]
        chunks == par_chunks(bytes, size)
        partial_counts == [k \in DOMAIN chunks |-> process_chunk(chunks[k], FALSE, 0)]
        c1 == IF "Bytes" \in ms THEN [c0 EXCEPT !.bytes = Len(bytes)] ELSE c0
        c2 == fold_partials(c1, partial_counts, 1)
        c3 == IF Len(bytes) > 0 /\ ~is_ascii_whitespace(bytes[Len(bytes)])
              THEN [c2 EXCEPT !.words = @ + 1]
              ELSE c2
        c4 == IF "Chars" \in ms
              THEN [c3 EXCEPT !.chars = count_chars(bytes)]
              ELSE c3
    IN  IF ms \cap {"Lines", "Words", "Chars"} # {} THEN Ok(c4) ELSE Ok(c0)

\* count_bytes(bytes, filename, modes) with CHUNK_SIZE = size.
count_bytes(bytes, filename, ms, size) ==
    LET c0 == [NewCounter EXCEPT !.filename = filename]
        c1 == IF "Bytes" \in ms THEN [c0 EXCEPT !.bytes = Len(bytes)] ELSE c0
        chunks == par_chunks(bytes, size)
        partial_counts == [k \in DOMAIN chunks |-> process_chunk(chunks[k], FALSE, 0)]
        c2 == fold_partials(c1, partial_counts, 1)
        c3 == IF Len(bytes) > 0 /\ ~is_ascii_whitespace(bytes[Len(bytes)])
              THEN [c2 EXCEPT !.words = @ + 1]
              ELSE c2
        c4 == IF "Chars" \in ms
              THEN [c3 EXCEPT !.chars = count_chars(bytes)]
              ELSE c3
    IN  IF ms \cap {"Lines", "Words", "Chars"} # {} THEN Ok(c4) ELSE Ok(c1)

-----------------------------------------------------------------------------
(* The inputs of the counting engine. *)

\* const CHUNK_SIZE: usize = 1024 * 1024 in count_bytes.
CHUNK_SIZE == 1048576

\* Tab, LF, VT, FF, CR, space, 'a', and the two bytes of U+00E9.
Alphabet == {9, 10, 11, 12, 13, 32, 97, 195, 169}

\* "hello world", the buffer of the word-boundary law.
HelloWorld == <<104, 101, 108, 108, 111, 32, 119, 111, 114, 108, 100>>

\* The text of test_count_bytes_unicode: seven 3-byte characters and LF.
Konnichiwa ==
    <<227, 129, 147, 227, 130, 147, 227, 129, 171, 227, 129, 161,
      227, 129, 175, 228, 184, 150, 231, 149, 140, 10>>

\* Buffers that exercise the UTF-8 validation: the overlong NUL of
\* test_error_conversions, an overlong 3-byte form, a surrogate, a code
\* point above U+10FFFF, and U+1F600.
Utf8Samples ==
    {<<192, 128>>, <<224, 128, 128>>, <<237, 160, 128>>,
     <<244, 144, 128, 128>>, <<240, 159, 152, 128>>}

\* Every byte value as a one-byte buffer.
SingleBytes == {<<x>> : x \in 0..255}

Buffers ==
    SeqsUpTo(Alphabet, MaxLen) \cup SingleBytes
        \cup {HelloWorld, Konnichiwa} \cup Utf8Samples

\* The chunk sizes 1 <= s <= len(B)+1, and the program's own.
ChunkSizes(bytes) == (1..(Len(bytes) + 1)) \cup {CHUNK_SIZE}

ModeSets ==
    {{"Lines"}, {"Words"}, {"Bytes"}, {"Chars"},
     {"Lines", "Words", "Bytes"}, {"Lines", "Words", "Chars"}}

NoResult == [tag |-> "None", value |-> None, error |-> None]

-----------------------------------------------------------------------------
(* counter.rs: count_reader. *)

\* reader.read_to_end(&mut buffer)? and then count_bytes(&buffer, ..).
\* read is Some(bytes) when the read succeeds, None when it fails.
count_reader(read, filename, ms, size) ==
    IF read = None THEN Err([kind |-> "Io", file |-> None])
    ELSE count_bytes(read[1], filename, ms, size)

-----------------------------------------------------------------------------
(* Idle values of the variables a specification does not use. *)

CountIdle ==
    /\ buffer = <<>>
    /\ chunk_size = 0
    /\ modes = {}
    /\ op = "none"
    /\ result = NoResult

FilesIdle ==
    /\ fs = <<>>
    /\ paths = <<>>
    /\ item = <<>>
    /\ item_result = <<>>
    /\ saved_error = None
    /\ full = FALSE
    /\ files_result = None

FormatIdle ==
    /\ results = <<>>
    /\ cli = <<>>
    /\ output = None

AddIdle ==
    /\ a = NewCounter
    /\ b = NewCounter
    /\ c = NewCounter
    /\ sum1 = None
    /\ sum2 = None

-----------------------------------------------------------------------------
(* Specification Spec: one scan of one buffer. *)

Init ==
    /\ buffer \in Buffers
    /\ chunk_size = 0
    /\ modes = {}
    /\ op = "none"
    /\ result = NoResult
    /\ FilesIdle
    /\ FormatIdle
    /\ AddIdle

\* count_bytes(&buffer, None, &ms), with CHUNK_SIZE = size.
CountBytes ==
    /\ op = "none"
    /\ \E ms \in ModeSets, size \in ChunkSizes(buffer) :
          /\ modes' = ms
          /\ chunk_size' = size
          /\ result' = count_bytes(buffer, None, ms, size)
    /\ op' = "count_bytes"
    /\ UNCHANGED <<buffer, filesVars, formatVars, addVars>>

\* count_reader(Cursor::new(buffer), None, &ms), or a reader whose read fails.
CountReader ==
    /\ op = "none"
    /\ \E ms \in ModeSets, size \in ChunkSizes(buffer), read \in {None, Some(buffer)} :
          /\ modes' = ms
          /\ chunk_size' = size
          /\ result' = count_reader(read, None, ms, size)
    /\ op' = "count_reader"
    /\ UNCHANGED <<buffer, filesVars, formatVars, addVars>>

Next == CountBytes \/ CountReader

Spec == Init /\ [][Next]_vars

-----------------------------------------------------------------------------
(* What the claims about a scan are stated in. *)

\* The scan returned a record.
Scanned == op # "none" /\ result.tag = "Ok"

\* The record the scan returned.
Counter == result.value[1]

\* process_chunk ran: one of Lines, Words, Chars was requested.
ChunksScanned == modes \cap {"Lines", "Words", "Chars"} # {}

\* The buffer was scanned as one single chunk.
SingleChunk == chunk_size >= Len(buffer)

\* The record of the same scan with the whole buffer as one chunk.
Whole == count_bytes(buffer, None, modes, Len(buffer) + 1).value[1]

\* The number of LF bytes of a buffer.
NumLF(bytes) == Cardinality({i \in 1..Len(bytes) : bytes[i] = 10})

EndsUnterminated(bytes) == Len(bytes) > 0 /\ bytes[Len(bytes)] # 10

\* The number of maximal runs of bytes outside ws: the positions where a
\* run starts.
Runs(bytes, ws) ==
    Cardinality({i \in 1..Len(bytes) :
                    bytes[i] \notin ws /\ (i = 1 \/ bytes[i - 1] \in ws)})

\* Whitespace as the word definition of the specification lists it.
ListedWhitespace == {32, 9, 10, 13, 12, 11}

\* Whitespace without the vertical tab.
AsciiWhitespace == {32, 9, 10, 13, 12}

\* The length of the longest line: for every byte, its distance from the
\* start of its line (the byte after the previous LF, or the start of input).
LineStart(bytes, i) ==
    LET before == {j \in 1..(i - 1) : bytes[j] = 10}
    IN  IF before = {} THEN 1 ELSE 1 + CHOOSE j \in before : \A k \in before : k <= j

LongestLine(bytes) ==
    IF bytes = <<>> THEN 0
    ELSE LET lens == {i - LineStart(bytes, i) + 1 : i \in 1..Len(bytes)}
         IN  CHOOSE m \in lens : \A n \in lens : n <= m

\* UTF-8 by the definition of the encoding: the sequence of scalar values a
\* buffer encodes, None when it encodes none (a truncated or stray byte, a
\* form that is not the shortest, a surrogate, a value above U+10FFFF).
RECURSIVE ScalarsFrom(_, _, _)
ScalarsFrom(bytes, i, acc) ==
    IF i > Len(bytes) THEN Some(acc)
    ELSE LET f == bytes[i]
             n == IF f < 128 THEN 1
                  ELSE IF f >= 192 /\ f <= 223 THEN 2
                  ELSE IF f >= 224 /\ f <= 239 THEN 3
                  ELSE IF f >= 240 /\ f <= 247 THEN 4
                  ELSE 0
             tail == /\ n > 0
                     /\ i + n - 1 <= Len(bytes)
                     /\ \A k \in 1..(n - 1) : IsCont(bytes[i + k])
             low(k) == bytes[i + k] - 128
             cp == IF n = 1 THEN f
                   ELSE IF n = 2 THEN (f - 192) * 64 + low(1)
                   ELSE IF n = 3 THEN (f - 224) * 4096 + low(1) * 64 + low(2)
                   ELSE (f - 240) * 262144 + low(1) * 4096 + low(2) * 64 + low(3)
             shortest == \/ n = 1
                         \/ n = 2 /\ cp >= 128
                         \/ n = 3 /\ cp >= 2048
                         \/ n = 4 /\ cp >= 65536
             scalar == cp <= 1114111 /\ ~(cp >= 55296 /\ cp <= 57343)
         IN  IF tail /\ shortest /\ scalar
             THEN ScalarsFrom(bytes, i + n, Append(acc, cp))
             ELSE None

Scalars(bytes) == ScalarsFrom(bytes, 1, <<>>)

IsUtf8(bytes) == Scalars(bytes) # None

-----------------------------------------------------------------------------
(* Claims about a scan, checked under Spec. *)

\* C1: for every buffer and every chunk size, the words of the chunked and
\* merged scan equal the words of the scan of the buffer as one chunk.
WordsChunkSizeIndependent ==
    Scanned => Counter.words = Whole.words

\* C2: for every buffer and every chunk size, the max_line_length of the
\* chunked and merged scan equals that of the scan of the buffer as one chunk.
MaxLineLengthBoundaryTransparent ==
    Scanned => Counter.max_line_length = Whole.max_line_length

LineCountConsistency ==
    /\ op = "count_reader"
    /\ result.tag = "Ok"
    /\ modes = {"Lines"}
    /\ IsUtf8(buffer)
    => Counter.lines = NumLF(buffer) + (IF EndsUnterminated(buffer) THEN 1 ELSE 0)

\* C5 as stated: scanned as one chunk, words is the number of maximal runs
\* of bytes that are not space, tab, LF, CR, FF or VT.
WordsAreRunsListedWhitespace ==
    Scanned /\ ChunksScanned /\ SingleChunk
    => Counter.words = Runs(buffer, ListedWhitespace)

\* C5 amended: scanned as one chunk, words is the number of maximal runs of
\* bytes that are not space, tab, LF, CR or FF; VT and the bytes from 0x80
\* are word bytes.
WordsAreRunsAsciiWhitespace ==
    Scanned /\ ChunksScanned /\ SingleChunk
    => Counter.words = Runs(buffer, AsciiWhitespace)

\* C5 witness: a single-chunk scan of a buffer whose one word has a VT
\* between a byte from 0x80 and another word byte.
WordsAreRunsWitness ==
    /\ Scanned /\ ChunksScanned /\ SingleChunk
    /\ \E i \in 2..(Len(buffer) - 1) :
          /\ buffer[i] = 11
          /\ buffer[i - 1] >= 128
          /\ ~is_ascii_whitespace(buffer[i + 1])
    /\ Counter.words = 1

\* C6: scanned as one chunk, max_line_length is the length of the longest
\* line, a line running up to and including its terminator and the
\* unterminated last line running up to the end of input.
MaxLineLengthIsLongestLine ==
    Scanned /\ ChunksScanned /\ SingleChunk
    => Counter.max_line_length = LongestLine(buffer)

\* C7: count_bytes with Chars requested returns Ok, with chars the number of
\* scalar values of a buffer that is UTF-8 and the byte length of one that
\* is not, whatever the chunk size.
CharsAreScalarsOrBytes ==
    op = "count_bytes" /\ "Chars" \in modes
    => /\ result.tag = "Ok"
       /\ Counter.chars = IF IsUtf8(buffer)
                          THEN Len(Scalars(buffer)[1])
                          ELSE Len(buffer)

\* C7 witness: a scan in one-byte chunks of a UTF-8 buffer with a
\* multi-byte character, counted in scalar values.
CharsAreScalarsOrBytesWitness ==
    /\ op = "count_bytes" /\ "Chars" \in modes
    /\ result.tag = "Ok"
    /\ chunk_size = 1
    /\ IsUtf8(buffer)
    /\ \E i \in 1..Len(buffer) : buffer[i] >= 128
    /\ Counter.chars < Len(buffer)
    /\ Counter.chars >= 2

\* C11: for every byte sequence, empty and not UTF-8 included,
\* count_bytes(B, {Bytes}) returns Ok with bytes equal to the length of B.
BytesOnlyIsLength ==
    op = "count_bytes" /\ modes = {"Bytes"}
    => /\ result.tag = "Ok"
       /\ Counter.bytes = Len(buffer)

\* C11 witness: count_bytes(B, {Bytes}) returned on a non-empty buffer that
\* is not UTF-8.
BytesOnlyIsLengthWitness ==
    /\ op = "count_bytes" /\ modes = {"Bytes"}
    /\ result.tag = "Ok"
    /\ ~IsUtf8(buffer)
    /\ Len(buffer) >= 2
    /\ Counter.bytes = Len(buffer)

\* C12: for every buffer and every non-empty set of requested kinds, the
\* record count_bytes returns has chars <= bytes, and bytes equal to the
\* length of the buffer.
CharsAtMostBytes ==
    op = "count_bytes" /\ result.tag = "Ok" /\ modes # {}
    => /\ Counter.chars <= Counter.bytes
       /\ Counter.bytes = Len(buffer)

\* The internal chunk boundaries of the last scan: the positions of the
\* last byte of every chunk but the last.
Boundaries == {k \in 1..(Len(buffer) - 1) : k % chunk_size = 0}

\* The maximal runs of word bytes of the buffer, as <<first, last>>.
WordRuns ==
    {<<i, j>> \in (1..Len(buffer)) \X (1..Len(buffer)) :
        /\ i <= j
        /\ \A k \in i..j : ~is_ascii_whitespace(buffer[k])
        /\ i = 1 \/ is_ascii_whitespace(buffer[i - 1])
        /\ j = Len(buffer) \/ is_ascii_whitespace(buffer[j + 1])}

\* A run has a byte on each side of an internal chunk boundary.
Straddles(run) == \E k \in Boundaries : run[1] <= k /\ k + 1 <= run[2]

\* C13: for every buffer and every chunking, a maximal run of word bytes
\* with a byte on each side of an internal chunk boundary contributes
\* exactly 1 to the merged words: when every run of the buffer is such a
\* run, the merged words are the number of runs.
StraddlingWordsCountedOnce ==
    /\ Scanned /\ ChunksScanned
    /\ WordRuns # {}
    /\ \A run \in WordRuns : Straddles(run)
    => Counter.words = Cardinality(WordRuns)

\* C13 in its second form, which the code keeps: when no word ends exactly
\* at an internal chunk boundary (a word byte before a boundary is followed
\* by a word byte), the merged words equal the single-chunk words, the
\* number of maximal runs of word bytes.
WordsEqualWhenNoWordEndsAtBoundary ==
    /\ Scanned /\ ChunksScanned
    /\ \A k \in Boundaries :
          ~is_ascii_whitespace(buffer[k]) => ~is_ascii_whitespace(buffer[k + 1])
    => /\ Counter.words = Whole.words
       /\ Counter.words = Runs(buffer, AsciiWhitespace)

-----------------------------------------------------------------------------
(* counter.rs: count_file and count_files. *)

\* The paths of a run: two named files and "-", standard input.
PathNames == {"a.txt", "b.txt", "-"}

\* What a path gives: a readable source with its bytes, or the error kind of
\* fs::File::open ("Other": any other open error, or the map failing).
Entries ==
    {[kind |-> "file", bytes |-> <<97, 10>>],
     [kind |-> "NotFound", bytes |-> <<>>],
     [kind |-> "PermissionDenied", bytes |-> <<>>],
     [kind |-> "Other", bytes |-> <<>>]}

\* count_file(path, modes) in the file system files.
count_file(files, path, ms, size) ==
    LET filename == path
        entry == files[path]
    IN  IF path = "-"
        THEN count_reader(IF entry.kind = "file" THEN Some(entry.bytes) ELSE None,
                          Some(filename), ms, size)
        ELSE IF entry.kind = "NotFound"
             THEN Err([kind |-> "FileNotFound", file |-> Some(filename)])
        ELSE IF entry.kind = "PermissionDenied"
             THEN Err([kind |-> "PermissionDenied", file |-> Some(filename)])
        ELSE IF entry.kind = "Other"
             THEN Err([kind |-> "Io", file |-> None])
        ELSE count_bytes(entry.bytes, Some(filename), ms, size)

\* count_files is paths.par_iter().map(|path| count_file(path, modes))
\* .collect() into a Result<Vec<_>, _>.  rayon's collect into a Result maps
\* every item through a closure that keeps the first error to arrive in a
\* Mutex<Option<E>> (a later error finds it set and is dropped) and ends
\* the iteration with while_some, whose flag stops items not yet started.

\* A worker takes a path that no worker has taken, unless the stop flag is up.
StartItem(i) ==
    /\ files_result = None
    /\ item[i] = "pending"
    /\ ~full
    /\ item' = [item EXCEPT ![i] = "running"]
    /\ UNCHANGED <<fs, paths, item_result, saved_error, full, files_result>>
    /\ UNCHANGED <<countVars, formatVars, addVars>>

\* The worker's count_file returns: an error is saved if none is, and
\* raises the stop flag.
FinishItem(i) ==
    /\ item[i] = "running"
    /\ LET r == count_file(fs, paths[i], modes, chunk_size)
       IN  /\ item_result' = [item_result EXCEPT ![i] = r]
           /\ IF r.tag = "Err"
              THEN /\ saved_error' = IF saved_error = None THEN r.error ELSE saved_error
                   /\ full' = TRUE
              ELSE UNCHANGED <<saved_error, full>>
    /\ item' = [item EXCEPT ![i] = "done"]
    /\ UNCHANGED <<fs, paths, files_result>>
    /\ UNCHANGED <<countVars, formatVars, addVars>>

\* A path not yet taken is dropped once the stop flag is up.
SkipItem(i) ==
    /\ files_result = None
    /\ item[i] = "pending"
    /\ full
    /\ item' = [item EXCEPT ![i] = "skipped"]
    /\ UNCHANGED <<fs, paths, item_result, saved_error, full, files_result>>
    /\ UNCHANGED <<countVars, formatVars, addVars>>

\* collect returns: the saved error if there is one, the records in path
\* order otherwise.
Collect ==
    /\ files_result = None
    /\ \A i \in DOMAIN item : item[i] \in {"done", "skipped"}
    /\ files_result' =
          Some(IF saved_error # None
               THEN Err(saved_error[1])
               ELSE Ok([i \in DOMAIN item |-> item_result[i].value[1]]))
    /\ UNCHANGED <<fs, paths, item, item_result, saved_error, full>>
    /\ UNCHANGED <<countVars, formatVars, addVars>>

InitFiles ==
    /\ buffer = <<>>
    /\ chunk_size = CHUNK_SIZE
    /\ modes \in {{"Lines", "Words", "Bytes"}, {"Chars"}}
    /\ op = "none"
    /\ result = NoResult
    /\ fs \in [PathNames -> Entries]
    /\ paths \in SeqsUpTo(PathNames, MaxPaths) \ {<<>>}
    /\ item = [i \in DOMAIN paths |-> "pending"]
    /\ item_result = [i \in DOMAIN paths |-> NoResult]
    /\ saved_error = None
    /\ full = FALSE
    /\ files_result = None
    /\ FormatIdle
    /\ AddIdle

NextFiles ==
    \/ \E i \in DOMAIN item : StartItem(i)
    \/ \E i \in DOMAIN item : FinishItem(i)
    \/ \E i \in DOMAIN item : SkipItem(i)
    \/ Collect

SpecFiles == InitFiles /\ [][NextFiles]_vars

\* The paths of the run whose count_file fails.
Failing == {i \in DOMAIN paths :
               count_file(fs, paths[i], modes, chunk_size).tag = "Err"}

FirstFailing == CHOOSE i \in Failing : \A j \in Failing : i <= j

\* C8: when a source fails, count_files returns no list, and returns the
\* error of the first failing source in source order, whatever the order in
\* which the workers ran.
FirstErrorInSourceOrder ==
    files_result # None /\ Failing # {}
    => /\ files_result[1].tag = "Err"
       /\ files_result[1].error =
             count_file(fs, paths[FirstFailing], modes, chunk_size).error

-----------------------------------------------------------------------------
(* parser.rs: Cli::get_count_modes. *)

DefaultModes == <<"Lines", "Words", "Bytes">>

get_count_modes(self) ==
    IF self.all THEN DefaultModes
    ELSE LET flag(m) == CASE m = "Lines" -> self.lines
                          [] m = "Words" -> self.words
                          [] m = "Bytes" -> self.bytes
                          [] m = "Chars" -> self.chars
             ms == SelectSeq(<<"Lines", "Words", "Bytes", "Chars">>, flag)
         IN  IF ms = <<>> THEN DefaultModes ELSE ms

-----------------------------------------------------------------------------
(* printer.rs: the formatters, build_output, format_json, format_results. *)
(* A text is the sequence of its lines, a line the sequence of the parts    *)
(* joined by " ", a part [pre, val, post]: the number val (if any) between  *)
(* the literal texts pre and post.  A JSON text is the sequence of its      *)
(* objects, an object the set of its members [key, num, str].               *)

Part(pre, val, post) == [pre |-> pre, val |-> val, post |-> post]

count_of(mode, counter) ==
    CASE mode = "Lines" -> counter.lines
      [] mode = "Words" -> counter.words
      [] mode = "Bytes" -> counter.bytes
      [] mode = "Chars" -> counter.chars

\* CountFormatter::format_count of PlainFormatter and HumanFormatter.
format_count(formatter, mode, counter) ==
    IF formatter = "Plain"
    THEN Part("", Some(count_of(mode, counter)), "")
    ELSE Part(CASE mode = "Lines" -> "lines: "
                [] mode = "Words" -> "words: "
                [] mode = "Bytes" -> "bytes: "
                [] mode = "Chars" -> "chars: ",
              Some(count_of(mode, counter)), "")

format_max_line_length(formatter, counter) ==
    IF formatter = "Plain"
    THEN Part("", Some(counter.max_line_length), "")
    ELSE Part("", Some(counter.max_line_length), " max line length")

\* format_filename(&Some(filename)).
format_filename(formatter, filename) ==
    IF formatter = "Plain"
    THEN Part(filename, None, "")
    ELSE Part("in ", None, filename)

format_total_label(formatter) == Part("total", None, "")

\* Vec<String> of modes.iter().map(|mode| formatter.format_count(mode, r)).
count_parts(formatter, ms, counter) ==
    [k \in DOMAIN ms |-> format_count(formatter, ms[k], counter)]

\* `let mut total = WcCounter::new(); for result in results { total += result; }`
RECURSIVE total_of(_, _, _)
total_of(total, rs, k) ==
    IF k > Len(rs) THEN total
    ELSE total_of(add_assign(total, rs[k]), rs, k + 1)

build_output(rs, self, formatter) ==
    LET ms == get_count_modes(self)
        line(r) ==
            LET p1 == count_parts(formatter, ms, r)
                p2 == IF self.max_line_length
                      THEN Append(p1, format_max_line_length(formatter, r))
                      ELSE p1
            IN  IF r.filename # None
                THEN Append(p2, format_filename(formatter, r.filename[1]))
                ELSE p2
        per_source == [k \in DOMAIN rs |-> line(rs[k])]
        total == total_of(NewCounter, rs, 1)
        t1 == count_parts(formatter, ms, total)
        t2 == IF self.max_line_length
              THEN Append(t1, format_max_line_length(formatter, total))
              ELSE t1
    IN  [kind |-> "text",
         entries |-> IF Len(rs) > 1
                     THEN Append(per_source, Append(t2, format_total_label(formatter)))
                     ELSE per_source]

Member(key, num, str) == [key |-> key, num |-> num, str |-> str]

json_key(mode) ==
    CASE mode = "Lines" -> "lines"
      [] mode = "Words" -> "words"
      [] mode = "Bytes" -> "bytes"
      [] mode = "Chars" -> "chars"

format_json(rs, self) ==
    LET ms == get_count_modes(self)
        counts(r) ==
            {Member(json_key(ms[k]), Some(count_of(ms[k], r)), "") : k \in DOMAIN ms}
                \cup (IF self.max_line_length
                      THEN {Member("max_line_length", Some(r.max_line_length), "")}
                      ELSE {})
        object(r) ==
            counts(r) \cup (IF r.filename # None
                            THEN {Member("filename", None, r.filename[1])}
                            ELSE {})
        per_source == [k \in DOMAIN rs |-> object(rs[k])]
        total == total_of(NewCounter, rs, 1)
    IN  Ok([kind |-> "json",
            entries |-> IF Len(rs) > 1
                        THEN Append(per_source,
                                    counts(total) \cup {Member("type", None, "total")})
                        ELSE per_source])

\* The early return of format_results: "{max} {filename}\n" per record,
\* joined by "\n", which leaves an empty line between two records.
max_line_length_only(rs) ==
    LET line(r) == <<Part("", Some(r.max_line_length), ""),
                     Part(IF r.filename # None THEN r.filename[1] ELSE "", None, "")>>
    IN  [kind |-> "text",
         entries |-> [k \in 1..(2 * Len(rs) - 1) |->
                         IF k % 2 = 1 THEN line(rs[(k + 1) \div 2]) ELSE <<>>]]

format_results(rs, self) ==
    IF /\ self.max_line_length
       /\ ~self.lines /\ ~self.words /\ ~self.bytes /\ ~self.chars
    THEN Ok(max_line_length_only(rs))
    ELSE CASE self.format = "Plain" -> Ok(build_output(rs, self, "Plain"))
           [] self.format = "Human" -> Ok(build_output(rs, self, "Human"))
           [] self.format = "Json" -> format_json(rs, self)

-----------------------------------------------------------------------------
(* Specification SpecFormat: one call of format_results. *)

\* The records of the tests: create_test_counter and counter2 of
\* printer_tests, and the record of test_count_reader_basic's text (read
\* from a reader, so without filename).
SampleCounters ==
    {[lines |-> 10, words |-> 20, bytes |-> 30, chars |-> 40,
      max_line_length |-> 50, filename |-> Some("test.txt")],
     [lines |-> 5, words |-> 10, bytes |-> 15, chars |-> 20,
      max_line_length |-> 25, filename |-> Some("test2.txt")],
     [lines |-> 2, words |-> 6, bytes |-> 27, chars |-> 27,
      max_line_length |-> 15, filename |-> None]}

OutputFormat == {"Plain", "Human", "Json"}

Clis ==
    [lines : BOOLEAN, words : BOOLEAN, bytes : BOOLEAN, chars : BOOLEAN,
     max_line_length : BOOLEAN, all : BOOLEAN, format : OutputFormat]

\* A list of several records comes from count_files, which names every
\* record; the record without a name is the single record of standard input.
InitFormat ==
    /\ results \in SeqsUpTo(SampleCounters, MaxResults) \ {<<>>}
    /\ Len(results) > 1 => \A k \in DOMAIN results : results[k].filename # None
    /\ cli \in Clis
    /\ output = NoResult
    /\ CountIdle
    /\ FilesIdle
    /\ AddIdle

FormatResults ==
    /\ output = NoResult
    /\ output' = format_results(results, cli)
    /\ UNCHANGED <<results, cli, countVars, filesVars, addVars>>

NextFormat == FormatResults

SpecFormat == InitFormat /\ [][NextFormat]_vars

-----------------------------------------------------------------------------
(* The claim about format_results, checked under SpecFormat. *)

RECURSIVE SumOver(_, _)
SumOver(rs, field) ==
    IF rs = <<>> THEN 0 ELSE rs[1][field] + SumOver(Tail(rs), field)

MaxOver(rs) ==
    CHOOSE m \in {rs[k].max_line_length : k \in DOMAIN rs} :
        \A k \in DOMAIN rs : rs[k].max_line_length <= m

\* The grand total of a list of records: sums, and the maximum of
\* max_line_length.
GrandTotal(rs) ==
    [lines |-> SumOver(rs, "lines"), words |-> SumOver(rs, "words"),
     bytes |-> SumOver(rs, "bytes"), chars |-> SumOver(rs, "chars"),
     max_line_length |-> MaxOver(rs)]

\* The entries written.
Written == output.value[1].entries

IsJson == output.value[1].kind = "json"

\* An entry is labelled as the total.
IsTotalEntry(e) ==
    IF IsJson
    THEN \E m \in e : m.key = "type" /\ m.str = "total"
    ELSE \E k \in DOMAIN e : e[k].pre = "total"

\* An entry names the source of record r (if r has a name).
NamesSource(e, r) ==
    \/ r.filename = None
    \/ IF IsJson
       THEN \E m \in e : m.key = "filename" /\ m.str = r.filename[1]
       ELSE \E k \in DOMAIN e : r.filename[1] \in {e[k].pre, e[k].post}

\* The numbers an entry shows are the counts of r that the flags ask for:
\* the requested kinds in the order lines, words, bytes, chars, then
\* max_line_length if asked.
ShowsCountsOf(e, r) ==
    LET ms == get_count_modes(cli)
    IN  IF IsJson
        THEN {m \in e : m.num # None}
                = {Member(json_key(ms[k]), Some(count_of(ms[k], r)), "") : k \in DOMAIN ms}
                    \cup (IF cli.max_line_length
                          THEN {Member("max_line_length", Some(r.max_line_length), "")}
                          ELSE {})
        ELSE LET nums == SelectSeq(e, LAMBDA part : part.val # None)
                 want == [k \in DOMAIN ms |-> count_of(ms[k], r)]
                            \o (IF cli.max_line_length THEN <<r.max_line_length>> ELSE <<>>)
             IN  [k \in DOMAIN nums |-> nums[k].val[1]] = want

\* C9: given more than one record, whatever the format and the flags, the
\* output is the per-source entries in source order and then exactly one
\* grand-total entry, showing the sums of the counts and the maximum of
\* max_line_length; given one record, there is no total entry.
GrandTotalEntry ==
    output.tag = "Ok"
    => LET n == Len(results)
       IN  IF n > 1
           THEN /\ Len(Written) = n + 1
                /\ \A k \in 1..n : /\ NamesSource(Written[k], results[k])
                                   /\ ~IsTotalEntry(Written[k])
                /\ IsTotalEntry(Written[n + 1])
                /\ ShowsCountsOf(Written[n + 1], GrandTotal(results))
           ELSE /\ Len(Written) = 1
                /\ ~IsTotalEntry(Written[1])

-----------------------------------------------------------------------------
(* Specification SpecAdd: test_counter_add_associative of lib.rs. *)

\* impl Arbitrary for WcCounter: five numbers below a limit, then
\* chars.min(bytes), max_len.min(bytes) and words.max(lines).
ArbitraryCounters ==
    {[lines |-> l, words |-> Max(w, l), bytes |-> n, chars |-> Min(ch, n),
      max_line_length |-> Min(m, n), filename |-> None] :
        l \in 0..MaxField, w \in 0..MaxField, n \in 0..MaxField,
        ch \in 0..MaxField, m \in 0..MaxField}

InitAdd ==
    /\ a \in ArbitraryCounters
    /\ b \in ArbitraryCounters
    /\ c \in ArbitraryCounters
    /\ sum1 = None
    /\ sum2 = None
    /\ CountIdle
    /\ FilesIdle
    /\ FormatIdle

\* let mut sum1 = a.clone(); sum1 += &b; sum1 += &c;
AddFirstOrder ==
    /\ sum1 = None
    /\ sum1' = Some(add_assign(add_assign(a, b), c))
    /\ UNCHANGED <<a, b, c, sum2, countVars, filesVars, formatVars>>

\* let mut sum2 = b.clone(); sum2 += &c; sum2 += &a;
AddSecondOrder ==
    /\ sum1 # None
    /\ sum2 = None
    /\ sum2' = Some(add_assign(add_assign(b, c), a))
    /\ UNCHANGED <<a, b, c, sum1, countVars, filesVars, formatVars>>

NextAdd == AddFirstOrder \/ AddSecondOrder

SpecAdd == InitAdd /\ [][NextAdd]_vars

-----------------------------------------------------------------------------
(* The claim about the accumulation, checked under SpecAdd. *)

Max3(x, y, z) == Max(x, Max(y, z))

\* C10: (A+B)+C and (B+C)+A have the same lines, words, bytes and chars,
\* each the sum of the three inputs' fields, and the same max_line_length,
\* the maximum of the three inputs'.
AccumulationOrderIndependent ==
    sum1 # None /\ sum2 # None
    => /\ \A f \in {"lines", "words", "bytes", "chars"} :
             /\ sum1[1][f] = sum2[1][f]
             /\ sum1[1][f] = a[f] + b[f] + c[f]
       /\ sum1[1].max_line_length = sum2[1].max_line_length
       /\ sum1[1].max_line_length =
             Max3(a.max_line_length, b.max_line_length, c.max_line_length)

\* C10 witness: both orders accumulated three records with different
\* max_line_length and non-zero counts, the largest max_line_length in A.
AccumulationOrderIndependentWitness ==
    /\ sum1 # None /\ sum2 # None
    /\ a.max_line_length > b.max_line_length
    /\ b.max_line_length >= c.max_line_length
    /\ a.lines > 0 /\ b.words > 0 /\ c.bytes > 0
    /\ sum1[1].max_line_length = a.max_line_length
    /\ sum2[1].max_line_length = a.max_line_length

====
